---- MODULE Spec2Model ----
(***************************************************************************)
(* Model of the recipe service of src/main.py: the three tables of the     *)
(* store (ingredient, recipe, ingredient_recipe), the five HTTP handlers   *)
(* of RecipesView and RecipeView, and the SQLAlchemy session each handler  *)
(* drives (flush, merge, commit, rollback at request teardown).            *)
(*                                                                         *)
(* Library behaviour the handlers rely on (flask_sqlalchemy 2.x, the only  *)
(* line that accepts db.create_all(app=app), with SQLAlchemy 1.x):         *)
(*  - recipe_schema.load turns each entry of "ingredients" into an         *)
(*    Ingredient: an entry carrying an id is looked up by primary key, an  *)
(*    entry carrying only a name becomes a new transient Ingredient(name)  *)
(*    (there is no lookup by name);                                        *)
(*  - assigning persistent ingredients to a new Recipe puts the recipe in  *)
(*    the session through the back_populates cascade;                      *)
(*  - session.merge(x) autoflushes, then returns x itself when x is        *)
(*    persistent and a copy of x when x is transient; x is not modified;   *)
(*  - unique=True is a unique index: an INSERT or UPDATE that would repeat *)
(*    a name raises IntegrityError, which no handler catches (HTTP 500);   *)
(*  - the session is removed at request teardown: whatever was flushed but *)
(*    not committed is rolled back; AUTO_INCREMENT values are not reused.  *)
(***************************************************************************)
EXTENDS Integers, FiniteSets, Sequences, TLC

\* ---- bounds of the model ------------------------------------------------
MaxIngredientId == 3
MaxRecipeId == 2
MaxArgs == 2
\* the same AUTO_INCREMENT bound for the concurrent specification
ConcMaxIngredientId == 2
IngredientNames == {"a", "b"}
RecipeNames == {"R1", "R2"}
\* the requests handled at the same time (concurrent specification)
Workers == {1, 2}

\* values of the ?ingredient= query parameter: a name, or the empty string
ArgValues == IngredientNames \cup {""}
\* the values of ?ingredient= in the query string, in order (<<>>: no args)
ArgLists == UNION {[1..n -> ArgValues] : n \in 0..MaxArgs}

VARIABLES
    ingredient,         \* table ingredient: rows [id, name]
    recipe,             \* table recipe: rows [id, name]
    ingredient_recipe,  \* table ingredient_recipe: rows [ingredient_id, recipe_id]
    nextIngredientId,   \* AUTO_INCREMENT of ingredient.id
    nextRecipeId,       \* AUTO_INCREMENT of recipe.id
    last,               \* the last request handled and its response
    tx                  \* requests in flight (concurrent specification)

store == <<ingredient, recipe, ingredient_recipe>>
counters == <<nextIngredientId, nextRecipeId>>
vars == <<ingredient, recipe, ingredient_recipe, nextIngredientId, nextRecipeId, last, tx>>

\* ---- request bodies ------------------------------------------------------
\* flask.request.get_json(): nothing or an empty object ("none"), a body the
\* schema rejects ("invalid"), or {name, ingredients: [...]} whose entries are
\* {"name": n} (names) or the id of a stored ingredient (ids).
NoBody == [kind |-> "none", name |-> "", names |-> {}, ids |-> {}]
BadBody == [kind |-> "invalid", name |-> "", names |-> {}, ids |-> {}]
ValidBodies ==
    [kind : {"valid"}, name : RecipeNames,
     names : SUBSET IngredientNames,
     ids : SUBSET {i.id : i \in ingredient}]
Bodies == {NoBody, BadBody} \cup ValidBodies

\* ---- model.py --------------------------------------------------------------
\* Ingredient.name / Recipe.name: unique=True. Does writing `name` into a table
\* whose other rows are `rows` break the unique index?
\* a column declared without unique=True
NoUniqueIndex(rows, name) == FALSE
UniqueViolation(rows, name) == \E r \in rows : r.name = name

\* Recipe.ingredients: primaryjoin recipe.id = ingredient_recipe.ingredient_id,
\* secondaryjoin ingredient.id = ingredient_recipe.recipe_id (the foreign keys
\* of the association table are declared crosswise, and used consistently).
LinkRow(r, i) == [ingredient_id |-> r, recipe_id |-> i]
Recipe_ingredients(links, r) ==
    {row.recipe_id : row \in {x \in links : x.ingredient_id = r}}

\* ---- serializer.py -----------------------------------------------------------
\* RecipeSchema.dump: id, name and the ids of the ingredients
RecipeSchema_dump(links, r) ==
    [id |-> r.id, name |-> r.name, ingredients |-> Recipe_ingredients(links, r.id)]

\* ---- responses -----------------------------------------------------------------
Response(op, id, json, args, status, body) ==
    [op |-> op, id |-> id, json |-> json, args |-> args,
     status |-> status, body |-> body]

\* the server takes a request when the one before it has ended
NoRequest == Response("NONE", 0, NoBody, <<>>, 0, {})
Idle == last = NoRequest

\* ---- api.py: RecipesView.get ----------------------------------------------------
\* request.args.get("ingredient"): the first value, None without one
args_get(args) == IF Len(args) = 0 THEN "" ELSE args[1]

\* the query of 82-89 over given tables
query_recipes(recipes, ingredients, links, args) ==
    IF Len(args) = 0 \/ args_get(args) = ""
    THEN recipes
    ELSE {r \in recipes : \E i \in ingredients :
             /\ i.name = args_get(args)
             /\ i.id \in Recipe_ingredients(links, r.id)}
\* a filter that takes any of the values given instead of the first
first_or_any_value(args) ==
    IF Len(args) = 0 \/ args_get(args) = ""
    THEN recipe
    ELSE {r \in recipe : \E i \in ingredient :
             /\ i.name \in {args[k] : k \in 1..Len(args)}
             /\ i.id \in Recipe_ingredients(ingredient_recipe, r.id)}
matching_recipes(args) == query_recipes(recipe, ingredient, ingredient_recipe, args)

RecipesView_get_body(args) ==
    {RecipeSchema_dump(ingredient_recipe, r) : r \in matching_recipes(args)}

RecipesView_get(args) ==
    /\ Idle
    /\ last' = Response("LIST", 0, NoBody, args, 200, RecipesView_get_body(args))
    /\ UNCHANGED <<store, counters, tx>>

\* ---- api.py: RecipeView.get -------------------------------------------------------
\* the handler over given tables
get_response(recipes, links, id) ==
    LET found == {r \in recipes : r.id = id}
    IN IF found = {}
       THEN Response("GET", id, NoBody, <<>>, 404, {})
       ELSE Response("GET", id, NoBody, <<>>, 200,
                     {RecipeSchema_dump(links, r) : r \in found})
RecipeView_get_response(id) == get_response(recipe, ingredient_recipe, id)

RecipeView_get(id) ==
    /\ Idle
    /\ last' = RecipeView_get_response(id)
    /\ UNCHANGED <<store, counters, tx>>

\* ---- the session's flush ----------------------------------------------------------
\* the ids AUTO_INCREMENT hands to new rows with these names, in every insert order
Assignments(names, first) ==
    {f \in [names -> first..(first + Cardinality(names) - 1)] :
        \A x, y \in names : x # y => f[x] # f[y]}

\* ---- api.py: RecipesView.post -------------------------------------------------------
RecipesView_post(json) ==
    /\ Idle
    /\ LET n == Cardinality(json.names)
           reply(status, body) == Response("POST", 0, json, <<>>, status, body)
       IN
       IF json.kind = "none"
       THEN /\ last' = reply(400, {})
            /\ UNCHANGED <<store, counters, tx>>
       ELSE IF json.kind = "invalid"
       THEN /\ last' = reply(422, {})
            /\ UNCHANGED <<store, counters, tx>>
       ELSE IF \E x \in json.names : UniqueViolation(ingredient, x)
       THEN \* add_all + flush (102-103): an INSERT repeats a stored name,
            \* IntegrityError, the request ends 500 and is rolled back
            \E k \in 1..n :
               /\ nextIngredientId + k - 1 <= MaxIngredientId
               /\ nextIngredientId' = nextIngredientId + k
               /\ last' = reply(500, {})
               /\ UNCHANGED <<store, nextRecipeId, tx>>
       ELSE IF \E r \in recipe : r.name = json.name
       THEN \* 105-111: the flushed ingredients are never committed
            /\ nextIngredientId + n - 1 <= MaxIngredientId
            /\ nextIngredientId' = nextIngredientId + n
            /\ last' = reply(400, {})
            /\ UNCHANGED <<store, nextRecipeId, tx>>
       ELSE \E f \in Assignments(json.names, nextIngredientId) :
              LET ings == json.ids \cup {f[x] : x \in json.names}
                  row == [id |-> nextRecipeId, name |-> json.name]
                  links == ingredient_recipe \cup {LinkRow(row.id, i) : i \in ings}
              IN /\ nextIngredientId + n - 1 <= MaxIngredientId
                 /\ nextRecipeId <= MaxRecipeId
                 /\ ingredient' = ingredient \cup {[id |-> f[x], name |-> x] : x \in json.names}
                 /\ recipe' = recipe \cup {row}
                 /\ ingredient_recipe' = links
                 /\ nextIngredientId' = nextIngredientId + n
                 /\ nextRecipeId' = nextRecipeId + 1
                 \* 112-119: with ingredients the recipe is in the session and gets
                 \* its id; without, merge() inserts a copy, recipe.id stays None
                 \* and the query by id finds no row (.one() raises, 500)
                 /\ last' = IF ings # {}
                            THEN reply(201, {RecipeSchema_dump(links, row)})
                            ELSE reply(500, {})
                 /\ UNCHANGED tx

\* an assignment that adds to the old links instead of replacing them
Recipe_add_ingredients(links, id, ings) ==
    links \cup {LinkRow(id, i) : i \in ings}
\* recipe.ingredients = [...] (145): the rows of the association table after the
\* flush, the old links of the recipe deleted and the new ones inserted
Recipe_set_ingredients(links, id, ings) ==
    {x \in links : x.ingredient_id # id} \cup {LinkRow(id, i) : i \in ings}

\* ---- api.py: RecipeView.put ---------------------------------------------------------
RecipeView_put(id, json) ==
    /\ Idle
    /\ LET n == Cardinality(json.names)
           found == {r \in recipe : r.id = id}
           reply(status, body) == Response("PUT", id, json, <<>>, status, body)
       IN
       IF found = {}
       THEN /\ last' = reply(404, {})
            /\ UNCHANGED <<store, counters, tx>>
       ELSE IF json.kind = "none"
       THEN /\ last' = reply(400, {})
            /\ UNCHANGED <<store, counters, tx>>
       ELSE IF json.kind = "invalid"
       THEN /\ last' = reply(422, {})
            /\ UNCHANGED <<store, counters, tx>>
       ELSE IF \/ \E x \in json.names : UniqueViolation(ingredient, x)
               \/ UniqueViolation(recipe \ found, json.name)
       THEN \* merge's autoflush (148): the UPDATE of recipe.name or an INSERT of an
            \* ingredient repeats a stored name, IntegrityError, 500, rolled back
            \E k \in 0..n :
               /\ k = 0 => UniqueViolation(recipe \ found, json.name)
               /\ nextIngredientId + k - 1 <= MaxIngredientId
               /\ nextIngredientId' = nextIngredientId + k
               /\ last' = reply(500, {})
               /\ UNCHANGED <<store, nextRecipeId, tx>>
       ELSE \E f \in Assignments(json.names, nextIngredientId) :
              LET ings == json.ids \cup {f[x] : x \in json.names}
                  row == [id |-> id, name |-> json.name]
                  links == Recipe_set_ingredients(ingredient_recipe, id, ings)
              IN /\ nextIngredientId + n - 1 <= MaxIngredientId
                 /\ ingredient' = ingredient \cup {[id |-> f[x], name |-> x] : x \in json.names}
                 /\ recipe' = (recipe \ found) \cup {row}
                 /\ ingredient_recipe' = links
                 /\ nextIngredientId' = nextIngredientId + n
                 /\ last' = reply(200, {RecipeSchema_dump(links, row)})
                 /\ UNCHANGED <<nextRecipeId, tx>>

\* a delete that cascades to the ingredients of the recipe
RecipeView_delete_cascade(id) ==
    /\ Idle
    /\ LET found == {r \in recipe : r.id = id}
       IN IF found = {}
          THEN /\ last' = Response("DELETE", id, NoBody, <<>>, 404, {})
               /\ UNCHANGED <<store, counters, tx>>
          ELSE /\ recipe' = recipe \ found
               /\ ingredient_recipe' = {x \in ingredient_recipe : x.ingredient_id # id}
               /\ ingredient' = {i \in ingredient :
                                    i.id \notin Recipe_ingredients(ingredient_recipe, id)}
               /\ last' = Response("DELETE", id, NoBody, <<>>, 200, {})
               /\ UNCHANGED <<counters, tx>>

\* ---- api.py: RecipeView.delete ------------------------------------------------------
RecipeView_delete(id) ==
    /\ Idle
    /\ LET found == {r \in recipe : r.id = id}
       IN IF found = {}
          THEN /\ last' = Response("DELETE", id, NoBody, <<>>, 404, {})
               /\ UNCHANGED <<store, counters, tx>>
          ELSE /\ recipe' = recipe \ found
               /\ ingredient_recipe' = {x \in ingredient_recipe : x.ingredient_id # id}
               /\ last' = Response("DELETE", id, NoBody, <<>>, 200, {})
               /\ UNCHANGED <<ingredient, counters, tx>>

(***************************************************************************)
(* Concurrent requests. Each worker runs one POST or PUT in its own        *)
(* session and transaction; the statements of a handler are the steps.     *)
(* Rows a transaction has inserted are invisible to the others until it    *)
(* commits, but the unique index sees them: an INSERT of a name another    *)
(* open transaction has inserted waits for that transaction to end.        *)
(***************************************************************************)
NoTx == [pc |-> "idle", op |-> "NONE", id |-> 0, name |-> "",
         pending |-> {}, inserted |-> {}, status |-> 0]

\* the bodies of the concurrent requests name their ingredients
ConcBodies == {json \in Bodies : json.ids = {}}

\* rows of ingredient inserted by the open transactions of the other workers
Uncommitted(w) == UNION {tx[v].inserted : v \in Workers \ {w}}

\* the handler returns or raises: what was not committed is rolled back
Ended(op, status) == [NoTx EXCEPT !.pc = "done", !.op = op, !.status = status]

\* RecipesView.post, 94-100: get_json and recipe_schema.load
post_load(w, json) ==
    /\ tx[w].pc = "idle"
    /\ tx' = [tx EXCEPT ![w] =
                IF json.kind = "none" THEN Ended("POST", 400)
                ELSE IF json.kind = "invalid" THEN Ended("POST", 422)
                ELSE [NoTx EXCEPT !.pc = "flush", !.op = "POST",
                                  !.name = json.name, !.pending = json.names]]
    /\ UNCHANGED <<store, counters, last>>

\* RecipeView.put, 133-145: the query by id, get_json, load and the assignments
put_load(w, id, json) ==
    /\ tx[w].pc = "idle"
    /\ tx' = [tx EXCEPT ![w] =
                IF \A r \in recipe : r.id # id THEN Ended("PUT", 404)
                ELSE IF json.kind = "none" THEN Ended("PUT", 400)
                ELSE IF json.kind = "invalid" THEN Ended("PUT", 422)
                ELSE [NoTx EXCEPT !.pc = "flush", !.op = "PUT", !.id = id,
                                  !.name = json.name, !.pending = json.names]]
    /\ UNCHANGED <<store, counters, last>>

\* flush (103, 148), one INSERT INTO ingredient: IntegrityError when the name is
\* stored, a wait while another open transaction has inserted it
flush_insert(w, x) ==
    /\ tx[w].pc = "flush"
    /\ x \in tx[w].pending
    /\ ~UniqueViolation(Uncommitted(w), x)
    /\ nextIngredientId <= ConcMaxIngredientId
    /\ nextIngredientId' = nextIngredientId + 1
    /\ tx' = [tx EXCEPT ![w] =
                IF UniqueViolation(ingredient, x)
                THEN Ended(tx[w].op, 500)
                ELSE [tx[w] EXCEPT !.pending = @ \ {x},
                                   !.inserted = @ \cup {[id |-> nextIngredientId, name |-> x]}]]
    /\ UNCHANGED <<store, nextRecipeId, last>>

\* the wait ends with an error (deadlock found, lock wait timeout): 500
flush_abort(w) ==
    /\ tx[w].pc = "flush"
    /\ \E x \in tx[w].pending : UniqueViolation(Uncommitted(w), x)
    /\ tx' = [tx EXCEPT ![w] = Ended(tx[w].op, 500)]
    /\ UNCHANGED <<store, counters, last>>

\* RecipesView.post, 105-111: the query by name after the flush
post_lookup(w) ==
    /\ tx[w].pc = "flush"
    /\ tx[w].op = "POST"
    /\ tx[w].pending = {}
    /\ tx' = [tx EXCEPT ![w] =
                IF \E r \in recipe : r.name = tx[w].name
                THEN Ended("POST", 400)
                ELSE [tx[w] EXCEPT !.pc = "merge"]]
    /\ UNCHANGED <<store, counters, last>>

\* RecipesView.post, 112-119: merge (INSERT INTO recipe and the links), commit
post_commit(w) ==
    LET t == tx[w]
        ings == {i.id : i \in t.inserted}
        row == [id |-> nextRecipeId, name |-> t.name]
    IN /\ t.pc = "merge"
       /\ nextRecipeId <= MaxRecipeId
       /\ nextRecipeId' = nextRecipeId + 1
       /\ IF UniqueViolation(recipe, t.name)
          THEN /\ tx' = [tx EXCEPT ![w] = Ended("POST", 500)]
               /\ UNCHANGED store
          ELSE /\ ingredient' = ingredient \cup t.inserted
               /\ recipe' = recipe \cup {row}
               /\ ingredient_recipe' =
                      ingredient_recipe \cup {LinkRow(row.id, i) : i \in ings}
               /\ tx' = [tx EXCEPT ![w] = Ended("POST", IF ings # {} THEN 201 ELSE 500)]
       /\ UNCHANGED <<nextIngredientId, last>>

\* RecipeView.put, 148-151: merge (UPDATE recipe and the links), commit
put_commit(w) ==
    LET t == tx[w]
        found == {r \in recipe : r.id = t.id}
        ings == {i.id : i \in t.inserted}
        row == [id |-> t.id, name |-> t.name]
    IN /\ t.pc = "flush"
       /\ t.op = "PUT"
       /\ t.pending = {}
       /\ IF UniqueViolation(recipe \ found, t.name)
          THEN /\ tx' = [tx EXCEPT ![w] = Ended("PUT", 500)]
               /\ UNCHANGED store
          ELSE /\ ingredient' = ingredient \cup t.inserted
               /\ recipe' = (recipe \ found) \cup {row}
               /\ ingredient_recipe' = Recipe_set_ingredients(ingredient_recipe, t.id, ings)
               /\ tx' = [tx EXCEPT ![w] = Ended("PUT", 200)]
       /\ UNCHANGED <<counters, last>>

\* the response is sent, the session is removed, the worker is free again
end_request(w) ==
    /\ tx[w].pc = "done"
    /\ tx' = [tx EXCEPT ![w] = NoTx]
    /\ UNCHANGED <<store, counters, last>>

\* the request ends: the response is sent and the session is removed
EndRequest ==
    /\ ~Idle
    /\ last' = NoRequest
    /\ UNCHANGED <<store, counters, tx>>

Init ==
    /\ ingredient = {}
    /\ recipe = {}
    /\ ingredient_recipe = {}
    /\ nextIngredientId = 1
    /\ nextRecipeId = 1
    /\ last = NoRequest
    /\ tx = [w \in Workers |-> NoTx]

Next ==
    \/ \E args \in ArgLists : RecipesView_get(args)
    \/ \E id \in 1..MaxRecipeId : RecipeView_get(id)
    \/ \E json \in Bodies : RecipesView_post(json)
    \/ \E id \in 1..MaxRecipeId, json \in Bodies : RecipeView_put(id, json)
    \/ \E id \in 1..MaxRecipeId : RecipeView_delete(id)
    \/ EndRequest

Spec == Init /\ [][Next]_vars

NextConc ==
    \/ \E w \in Workers, json \in ConcBodies : post_load(w, json)
    \/ \E w \in Workers, id \in 1..MaxRecipeId, json \in ConcBodies : put_load(w, id, json)
    \/ \E w \in Workers, x \in IngredientNames : flush_insert(w, x)
    \/ \E w \in Workers : flush_abort(w)
    \/ \E w \in Workers : post_lookup(w)
    \/ \E w \in Workers : post_commit(w)
    \/ \E w \in Workers : put_commit(w)
    \/ \E w \in Workers : end_request(w)

SpecConc == Init /\ [][NextConc]_vars

(***************************************************************************)
(* The claims. A step of a handler is a step that sets `last` to the       *)
(* request and its response; the unprimed tables are the store before the  *)
(* request, the primed ones the store after it.                            *)
(***************************************************************************)
IsPost == last'.op = "POST" /\ last'.json.kind = "valid"
IsPut == last'.op = "PUT" /\ last'.json.kind = "valid"
NameIsFree == \A r \in recipe : r.name # last'.json.name
TargetExists == \E r \in recipe : r.id = last'.id
NameIsFreeForTarget == \A r \in recipe : r.id # last'.id => r.name # last'.json.name
Succeeded == last'.status \in {200, 201}
\* the ingredients of the recipe the response shows
Shown == UNION {b.ingredients : b \in last'.body}
LinkedNames(links, ings, id) ==
    {i.name : i \in {j \in ings : j.id \in Recipe_ingredients(links, id)}}

\* C1: a POST or PUT that is otherwise acceptable and references an ingredient
\* by a stored name succeeds, links the stored ingredient and creates no
\* ingredient of that name; a name not stored yet gets exactly one new
\* ingredient, which is linked.
C1_UpsertByName ==
    [][((IsPost /\ NameIsFree) \/ (IsPut /\ TargetExists /\ NameIsFreeForTarget)) =>
        \A x \in last'.json.names :
            LET before == {i \in ingredient : i.name = x}
                after == {i \in ingredient' : i.name = x}
            IN /\ Succeeded
               /\ Cardinality(after) = 1
               /\ before # {} => after = before
               /\ \A i \in after : i.id \in Shown]_vars

\* C2: no two stored recipes and no two stored ingredients have the same name.
C2_UniqueNames ==
    /\ \A r1, r2 \in recipe : r1.name = r2.name => r1 = r2
    /\ \A i1, i2 \in ingredient : i1.name = i2.name => i1 = i2
\* a PUT has just asked for the name of another stored recipe
C2_Witness ==
    /\ last.op = "PUT"
    /\ last.json.kind = "valid"
    /\ \E r1, r2 \in recipe : r1.id = last.id /\ r2.id # last.id /\ r2.name = last.json.name

\* C3: a POST with the name of a stored recipe answers 400 and leaves the
\* recipes, the ingredients and the links as they were.
C3_ConflictIs400 ==
    [][(IsPost /\ ~NameIsFree) => (last'.status = 400 /\ UNCHANGED store)]_vars

\* C4: a POST with a fresh name and N >= 1 distinct ingredient names answers
\* 201 with that name and N ingredient ids, and GET /recipes/{id} then answers
\* 200 with the same representation.
C4_CreateThenGet ==
    [][(IsPost /\ NameIsFree /\ last'.json.names # {} /\ last'.json.ids = {}) =>
        /\ last'.status = 201
        /\ \E b \in last'.body :
              /\ last'.body = {b}
              /\ b.name = last'.json.name
              /\ Cardinality(b.ingredients) = Cardinality(last'.json.names)
              /\ get_response(recipe', ingredient_recipe', b.id).status = 200
              /\ get_response(recipe', ingredient_recipe', b.id).body = {b}]_vars

\* the stored recipes one of whose ingredients is named x, as representations
WithIngredient(x) ==
    {[id |-> r.id, name |-> r.name,
      ingredients |-> {row.recipe_id : row \in {y \in ingredient_recipe : y.ingredient_id = r.id}}] :
        r \in {q \in recipe : \E row \in ingredient_recipe, i \in ingredient :
                  /\ row.ingredient_id = q.id
                  /\ row.recipe_id = i.id
                  /\ i.name = x}}
Everything ==
    {[id |-> r.id, name |-> r.name,
      ingredients |-> {row.recipe_id : row \in {y \in ingredient_recipe : y.ingredient_id = r.id}}] :
        r \in recipe}

\* C5 as stated: without a filter every recipe, with ?ingredient=x exactly the
\* recipes with an ingredient named x, x being the first value given.
C5_FilterAsStated ==
    last.op = "LIST" =>
        /\ last.status = 200
        /\ last.body = IF Len(last.args) = 0 THEN Everything
                       ELSE WithIngredient(last.args[1])

\* C5 amended: without a filter, or with an empty first value, every recipe;
\* with a non-empty first value x exactly the recipes with an ingredient named x.
C5_Filter ==
    last.op = "LIST" =>
        /\ last.status = 200
        /\ last.body = IF Len(last.args) = 0 \/ last.args[1] = "" THEN Everything
                       ELSE WithIngredient(last.args[1])
\* two different values were given, the first selects one recipe and the
\* second would select another one
C5_Witness ==
    /\ last.op = "LIST"
    /\ Len(last.args) = 2
    /\ last.args[1] # ""
    /\ last.body # {}
    /\ WithIngredient(last.args[2]) # {}
    /\ WithIngredient(last.args[2]) \cap last.body = {}

\* C6: after a PUT answered 200 the recipe has its id, the name of the payload
\* and exactly the ingredients of the payload, GET shows the same, and every
\* other recipe keeps its name and its ingredients.
C6_PutReplaces ==
    [][(last'.op = "PUT" /\ last'.status = 200) =>
        LET id == last'.id
            json == last'.json
            linked == Recipe_ingredients(ingredient_recipe', id)
        IN /\ TargetExists
           /\ {r \in recipe' : r.id = id} = {[id |-> id, name |-> json.name]}
           /\ json.ids \subseteq linked
           /\ Cardinality(linked) = Cardinality(json.ids) + Cardinality(json.names)
           /\ LinkedNames(ingredient_recipe', ingredient', id)
                = json.names \cup {i.name : i \in {j \in ingredient : j.id \in json.ids}}
           /\ get_response(recipe', ingredient_recipe', id).status = 200
           /\ get_response(recipe', ingredient_recipe', id).body
                = {[id |-> id, name |-> json.name, ingredients |-> linked]}
           /\ {r \in recipe' : r.id # id} = {r \in recipe : r.id # id}
           /\ \A r \in recipe : r.id # id =>
                 Recipe_ingredients(ingredient_recipe', r.id)
                    = Recipe_ingredients(ingredient_recipe, r.id)]_vars
\* a PUT has succeeded on the only recipe ever created and left a stored
\* ingredient, which only that recipe can have introduced, out of it
C6_Witness ==
    /\ last.op = "PUT"
    /\ last.status = 200
    /\ nextRecipeId = 2
    /\ Recipe_ingredients(ingredient_recipe, last.id) # {}
    /\ \E i \in ingredient : i.id \notin Recipe_ingredients(ingredient_recipe, last.id)

\* C7: PUT answers 404 for an unknown id, else 400 without a body, else 422
\* for an invalid body, and else always 200 with the updated recipe, whatever
\* the name. Stated for the bodies that name no stored ingredient (the others
\* fail as C1 does).
C7_PutOutcomes ==
    [][(last'.op = "PUT" /\ \A x \in last'.json.names : \A i \in ingredient : i.name # x) =>
        IF ~TargetExists THEN last'.status = 404
        ELSE IF last'.json.kind = "none" THEN last'.status = 400
        ELSE IF last'.json.kind = "invalid" THEN last'.status = 422
        ELSE /\ last'.status = 200
             /\ \E b \in last'.body :
                   b.id = last'.id /\ b.name = last'.json.name]_vars

\* C8: a POST with a fresh name and no ingredients answers 201 with a recipe
\* of that name, a generated id and no ingredients, which GET then returns.
C8_EmptyRecipe ==
    [][(IsPost /\ NameIsFree /\ last'.json.names = {} /\ last'.json.ids = {}) =>
        /\ last'.status = 201
        /\ \E b \in last'.body :
              /\ b.name = last'.json.name
              /\ b.ingredients = {}
              /\ get_response(recipe', ingredient_recipe', b.id).status = 200]_vars

\* C9: a DELETE of a stored recipe answers 200, after which GET by id answers
\* 404 and no listing shows the recipe; only the recipe and its links are
\* removed, the ingredients stay. A DELETE of an unknown id answers 404 and
\* changes nothing.
C9_Delete ==
    [][last'.op = "DELETE" =>
        IF TargetExists
        THEN /\ last'.status = 200
             /\ get_response(recipe', ingredient_recipe', last'.id).status = 404
             /\ \A args \in ArgLists :
                   \A r \in query_recipes(recipe', ingredient', ingredient_recipe', args) :
                      r.id # last'.id
             /\ recipe' = {r \in recipe : r.id # last'.id}
             /\ \A r \in recipe' :
                   Recipe_ingredients(ingredient_recipe', r.id)
                      = Recipe_ingredients(ingredient_recipe, r.id)
             /\ Recipe_ingredients(ingredient_recipe', last'.id) = {}
             /\ ingredient' = ingredient
        ELSE /\ last'.status = 404
             /\ UNCHANGED store]_vars
\* a recipe was deleted, another one is left, and an ingredient is in no recipe
C9_Witness ==
    /\ last.op = "DELETE"
    /\ last.status = 200
    /\ recipe # {}
    /\ \E i \in ingredient : \A r \in recipe :
          i.id \notin Recipe_ingredients(ingredient_recipe, r.id)

\* C10: with two requests in flight the store never holds two ingredients of
\* one name: no two committed rows, no two open inserts and no open insert
\* beside a committed row share a name.
C10_NoDuplicateIngredient ==
    /\ \A i1, i2 \in ingredient : i1.name = i2.name => i1 = i2
    /\ \A w \in Workers : \A i \in tx[w].inserted :
          \A j \in ingredient \cup Uncommitted(w) : i.name # j.name
\* one request waits to insert a name the other has inserted and not committed
C10_Witness ==
    \E w, v \in Workers :
        /\ w # v
        /\ tx[w].pc = "flush"
        /\ tx[v].pc \in {"flush", "merge"}
        /\ \E x \in tx[w].pending : \E i \in tx[v].inserted : i.name = x
====
